---- MODULE Spec2Model ----
(***************************************************************************)
(* Model of package sign (sign/signature_builder.go): SignatureBuilder,    *)
(* which signs and validates HTTP requests and responses with              *)
(* hex(SHA-256(path + canonical params/body + timestamp + secret)).        *)
(*                                                                         *)
(* Strings are sequences of one-character strings, so that concatenation,  *)
(* byte order (sort.Strings) and byte-level edits are computed.  int64     *)
(* values are four 16-bit limbs, least significant first, so that          *)
(* strconv.ParseInt, "%d" and the wrapping int64 subtraction keep their    *)
(* 64-bit width.                                                           *)
(***************************************************************************)
EXTENDS Integers, Sequences, FiniteSets, TLC

VARIABLES s, now, ticks, pc, r, res, pre, sgn, out, tampered, canon

vars == <<s, now, ticks, pc, r, res, pre, sgn, out, tampered, canon>>

-----------------------------------------------------------------------------
(* Bytes and strings *)

\* ASCII codes of the bytes the model uses: Go compares strings byte-wise.
Code ==
  [c \in {" ", "&", "+", "-", "/", "0", "1", "2", "3", "4", "5", "6", "7", "8",
          "9", ";", "=", "a", "b", "k", "s", "x", "#"} |->
     CASE c = " " -> 32 [] c = "#" -> 35 [] c = "&" -> 38 [] c = "+" -> 43
       [] c = "-" -> 45 [] c = "/" -> 47 [] c = "0" -> 48 [] c = "1" -> 49
       [] c = "2" -> 50 [] c = "3" -> 51 [] c = "4" -> 52 [] c = "5" -> 53
       [] c = "6" -> 54 [] c = "7" -> 55 [] c = "8" -> 56 [] c = "9" -> 57
       [] c = ";" -> 59 [] c = "=" -> 61 [] c = "a" -> 97 [] c = "b" -> 98
       [] c = "k" -> 107 [] c = "s" -> 115 [] c = "x" -> 120]

\* Go's string "<": byte-wise lexicographic order, a proper prefix first.
RECURSIVE Less(_, _)
Less(x, y) ==
  IF x = <<>> THEN y # <<>>
  ELSE IF y = <<>> THEN FALSE
  ELSE IF Head(x) = Head(y) THEN Less(Tail(x), Tail(y))
  ELSE Code[Head(x)] < Code[Head(y)]

\* strings.Cut(str, sep) for a one-byte separator.
RECURSIVE Cut(_, _)
Cut(str, sep) ==
  IF str = <<>> THEN [before |-> <<>>, after |-> <<>>, found |-> FALSE]
  ELSE IF Head(str) = sep
    THEN [before |-> <<>>, after |-> Tail(str), found |-> TRUE]
    ELSE LET rest == Cut(Tail(str), sep)
         IN  [rest EXCEPT !.before = <<Head(str)>> \o @]

\* strings.Contains(str, c) for a one-byte c.
Contains(str, c) == \E i \in 1..Len(str) : str[i] = c

-----------------------------------------------------------------------------
(* int64: two's complement in four 16-bit limbs, least significant first *)

Base == 2^16

Zero64 == <<0, 0, 0, 0>>
One64 == <<1, 0, 0, 0>>
MinInt64 == <<0, 0, 0, Base \div 2>>

\* a + b modulo 2^64, and the carry out of bit 63.
AddCarry(a, b) ==
  LET s1 == a[1] + b[1]
      s2 == a[2] + b[2] + (s1 \div Base)
      s3 == a[3] + b[3] + (s2 \div Base)
      s4 == a[4] + b[4] + (s3 \div Base)
  IN  [v |-> <<s1 % Base, s2 % Base, s3 % Base, s4 % Base>>,
       carry |-> s4 \div Base]

Add64(a, b) == AddCarry(a, b).v

Neg64(a) == Add64([i \in 1..4 |-> Base - 1 - a[i]], One64)

\* Go's int64 a - b: wraps modulo 2^64.
Sub64(a, b) == Add64(a, Neg64(b))

IsNeg64(a) == a[4] >= Base \div 2

\* Unsigned a < b.
LessU64(a, b) ==
  \E i \in 1..4 : a[i] < b[i] /\ \A j \in (i + 1)..4 : a[j] = b[j]

\* Signed a < b.
Less64(a, b) ==
  IF IsNeg64(a) # IsNeg64(b) THEN IsNeg64(a) ELSE LessU64(a, b)

\* The int64 of a small integer of the model (|n| < 2^31).
ToInt64(n) ==
  IF n >= 0 THEN <<n % Base, n \div Base, 0, 0>>
  ELSE Neg64(<<(-n) % Base, (-n) \div Base, 0, 0>>)

Digits == <<"0", "1", "2", "3", "4", "5", "6", "7", "8", "9">>

IsDigit(c) == \E d \in 1..10 : Digits[d] = c

DigitVal(c) == (CHOOSE d \in 1..10 : Digits[d] = c) - 1

\* a * 10 + d as an unsigned 64-bit value, and whether it passed 2^64 - 1.
MulAdd10(a, d) ==
  LET t1 == a[1] * 10 + d
      t2 == a[2] * 10 + (t1 \div Base)
      t3 == a[3] * 10 + (t2 \div Base)
      t4 == a[4] * 10 + (t3 \div Base)
  IN  [v |-> <<t1 % Base, t2 % Base, t3 % Base, t4 % Base>>,
       ovf |-> t4 \div Base > 0]

\* strconv.ParseUint(str, 10, 64): err is "" (none), "syntax" or "range".
RECURSIVE ParseUintFrom(_, _)
ParseUintFrom(acc, str) ==
  IF str = <<>> THEN [v |-> acc, err |-> ""]
  ELSE IF ~IsDigit(Head(str)) THEN [v |-> Zero64, err |-> "syntax"]
  ELSE LET m == MulAdd10(acc, DigitVal(Head(str)))
       IN  IF m.ovf
             THEN \* the syntax of the rest is still checked first
                  IF \A i \in 1..Len(str) : IsDigit(str[i])
                    THEN [v |-> Zero64, err |-> "range"]
                    ELSE [v |-> Zero64, err |-> "syntax"]
             ELSE ParseUintFrom(m.v, Tail(str))

ParseUint(str) ==
  IF str = <<>> THEN [v |-> Zero64, err |-> "syntax"]
  ELSE ParseUintFrom(Zero64, str)

\* strconv.ParseInt(str, 10, 64).
ParseInt(str) ==
  IF str = <<>> THEN [v |-> Zero64, err |-> "syntax"]
  ELSE LET neg == Head(str) = "-"
           body == IF Head(str) \in {"+", "-"} THEN Tail(str) ELSE str
           un == ParseUint(body)
       IN  IF un.err # "" THEN un
           ELSE IF ~neg /\ ~LessU64(un.v, MinInt64)
             THEN [v |-> Zero64, err |-> "range"]
           ELSE IF neg /\ LessU64(MinInt64, un.v)
             THEN [v |-> Zero64, err |-> "range"]
           ELSE [v |-> IF neg THEN Neg64(un.v) ELSE un.v, err |-> ""]

\* Unsigned a divided by 10: quotient and remainder.
DivMod10(a) ==
  LET q4 == a[4] \div 10
      t3 == (a[4] % 10) * Base + a[3]
      t2 == (t3 % 10) * Base + a[2]
      t1 == (t2 % 10) * Base + a[1]
  IN  [q |-> <<t1 \div 10, t2 \div 10, t3 \div 10, q4>>, rem |-> t1 % 10]

RECURSIVE FormatUint(_)
FormatUint(a) ==
  IF a = Zero64 THEN <<>>
  ELSE LET d == DivMod10(a) IN FormatUint(d.q) \o <<Digits[d.rem + 1]>>

\* fmt.Sprintf("%d", v) of an int64.
FormatInt(v) ==
  IF v = Zero64 THEN <<"0">>
  ELSE IF IsNeg64(v) THEN <<"-">> \o FormatUint(Neg64(v))
  ELSE FormatUint(v)

-----------------------------------------------------------------------------
(* net/url, mime and io, as far as the builder uses them *)

\* url.QueryUnescape on the bytes of the model: "+" decodes to a space.
\* ("%" escapes are outside the model's alphabet.)
QueryUnescape(str) ==
  [i \in 1..Len(str) |-> IF str[i] = "+" THEN " " ELSE str[i]]

\* url.Values: a map from key to the list of its values, in order of arrival.
AddValue(m, key, value) ==
  IF key \in DOMAIN m THEN [m EXCEPT ![key] = Append(@, value)]
  ELSE (key :> <<value>>) @@ m

\* url.ParseQuery: segments are split at "&"; a segment holding ";" is an
\* error and is skipped, an empty segment is skipped, the others are cut at
\* their first "=" and unescaped.  The pairs parsed are kept on error.
RECURSIVE ParseQueryFrom(_, _, _)
ParseQueryFrom(m, err, query) ==
  IF query = <<>> THEN [m |-> m, err |-> err]
  ELSE LET c == Cut(query, "&")
           kv == Cut(c.before, "=")
       IN  IF Contains(c.before, ";") THEN ParseQueryFrom(m, TRUE, c.after)
           ELSE IF c.before = <<>> THEN ParseQueryFrom(m, err, c.after)
           ELSE ParseQueryFrom(
                  AddValue(m, QueryUnescape(kv.before), QueryUnescape(kv.after)),
                  err, c.after)

ParseQuery(query) == ParseQueryFrom(<<>>, FALSE, query)

\* The Content-Type header values of the model ("" is an absent header).
ContentTypes ==
  {"", "application/x-www-form-urlencoded", "Application/JSON; charset=utf-8",
   "text/plain", "text/"}

\* mime.ParseMediaType on those values: the type in lower case without its
\* parameters; "text/" has no subtype and is an error.
ParseMediaType(v) ==
  CASE v = "Application/JSON; charset=utf-8" ->
         [mt |-> "application/json", err |-> FALSE]
    [] v = "text/" -> [mt |-> "", err |-> TRUE]
    [] OTHER -> [mt |-> v, err |-> FALSE]

\* A body stream: the bytes a reader gets before it ends, and whether it
\* ends with a read error instead of EOF.
Stream(bytes) == [buf |-> bytes, err |-> FALSE]

\* Mutant of NopCloser: the bytes read are not put back.
NopCloser_empty(bytes) == Stream(<<>>)

\* bytes.NewBuffer(body) behind io.NopCloser: always ends with EOF.
NopCloser(bytes) == Stream(bytes)

\* io.ReadAll: everything up to EOF or the error; the stream is drained.
ReadAll(body) ==
  [data |-> body.buf, err |-> body.err, rest |-> [body EXCEPT !.buf = <<>>]]

-----------------------------------------------------------------------------
(* SignatureBuilder *)

\* sha256.Sum256 in hex, taken as an injective function of the text: the
\* digest of a text is the text behind a "#".
hash(text) == <<"#">> \o text

RECURSIVE Insert(_, _)
Insert(k, sorted) ==
  IF sorted = <<>> THEN <<k>>
  ELSE IF Less(k, Head(sorted)) THEN <<k>> \o sorted
  ELSE <<Head(sorted)>> \o Insert(k, Tail(sorted))

\* Mutant of SortStrings: the keys stay in the order range gave them.
SortStrings_unsorted(keys) == keys

\* sort.Strings(keys).
RECURSIVE SortStrings(_)
SortStrings(keys) ==
  IF keys = <<>> THEN <<>> ELSE Insert(Head(keys), SortStrings(Tail(keys)))

\* The orders in which Go's range may visit the keys of a map.
RangeOrders(m) ==
  {o \in [1..Cardinality(DOMAIN m) -> DOMAIN m] :
     \A i, j \in DOMAIN o : i # j => o[i] # o[j]}

RECURSIVE ParamStr(_, _)
ParamStr(keys, params) ==
  IF keys = <<>> THEN <<>>
  ELSE Head(keys) \o <<"=">> \o params[Head(keys)] \o ParamStr(Tail(keys), params)

\* buildParamsSignatureText; order is the order in which range visits params.
buildParamsSignatureText(params, order, body) ==
  ParamStr(SortStrings(order), params) \o body

\* getGETParams: the first value of every key of r.URL.Query().
getGETParams(req) ==
  LET values == ParseQuery(req.query).m
  IN  [key \in DOMAIN values |-> values[key][1]]

\* Mutant of getPOSTParams: a JSON body is signed as raw text and is also
\* decomposed into form parameters.
getPOSTParams_decompose(req) ==
  LET ct == ParseMediaType(IF req.ctype = "" THEN "application/x-www-form-urlencoded"
                           ELSE req.ctype)
      rd == ReadAll(req.body)
      form == ParseQuery(rd.data)
  IN  IF ct.err
        THEN [body |-> <<>>, params |-> <<>>, err |-> "failed to parse content type",
              stream |-> req.body]
      ELSE IF rd.err
        THEN [body |-> <<>>, params |-> <<>>, err |-> "failed to read request body",
              stream |-> rd.rest]
      ELSE IF ct.mt \notin {"application/json", "application/x-www-form-urlencoded"}
        THEN [body |-> <<>>, params |-> <<>>, err |-> "unsupported content type",
              stream |-> NopCloser(rd.data)]
      ELSE IF form.err /\ ct.mt # "application/json"
        THEN [body |-> <<>>, params |-> <<>>, err |-> "failed to parse form data",
              stream |-> NopCloser(rd.data)]
      ELSE [body |-> IF ct.mt = "application/json" THEN rd.data ELSE <<>>,
            params |-> [k \in DOMAIN form.m |-> form.m[k][1]],
            err |-> "", stream |-> NopCloser(rd.data)]

\* getPOSTParams: body text, form parameters, error, and r.Body afterwards.
getPOSTParams(req) ==
  LET ct == ParseMediaType(IF req.ctype = "" THEN "application/x-www-form-urlencoded"
                           ELSE req.ctype)
      rd == ReadAll(req.body)
      form == ParseQuery(rd.data)
  IN  IF ct.err
        THEN [body |-> <<>>, params |-> <<>>, err |-> "failed to parse content type",
              stream |-> req.body]
      ELSE IF rd.err
        THEN [body |-> <<>>, params |-> <<>>, err |-> "failed to read request body",
              stream |-> rd.rest]
      ELSE IF ct.mt = "application/json"
        THEN [body |-> rd.data, params |-> <<>>, err |-> "",
              stream |-> NopCloser(rd.data)]
      ELSE IF ct.mt = "application/x-www-form-urlencoded"
        THEN IF form.err
               THEN [body |-> <<>>, params |-> <<>>, err |-> "failed to parse form data",
                     stream |-> NopCloser(rd.data)]
               ELSE [body |-> <<>>,
                     params |-> [k \in DOMAIN form.m |-> form.m[k][1]],
                     err |-> "", stream |-> NopCloser(rd.data)]
      ELSE [body |-> <<>>, params |-> <<>>, err |-> "unsupported content type",
            stream |-> NopCloser(rd.data)]

\* The parameter map buildSignatureFromIncomeRequest canonicalizes: the form
\* parameters written over the query parameters.
queryParams(req) == getPOSTParams(req).params @@ getGETParams(req)

\* buildSignatureFromIncomeRequest: result (<<>> is nil), error, r.Body after.
buildSignatureFromIncomeRequest(sb, req, order, clock) ==
  LET post == getPOSTParams(req)
      ts == IF req.hTs = <<>> THEN FormatInt(ToInt64(clock)) ELSE req.hTs
      finalText == req.path \o buildParamsSignatureText(queryParams(req), order, post.body)
                     \o ts \o sb.secretKey
  IN  IF post.err # ""
        THEN [rs |-> <<>>, err |-> post.err, stream |-> post.stream]
        ELSE [rs |-> <<[Sign |-> hash(finalText), FinalText |-> finalText,
                        Timestamp |-> ts, AccessKey |-> <<>>]>>,
              err |-> "", stream |-> post.stream]

\* Line 41 of SignResponseBody: the text a response signature covers.
SignResponseText(sb, reqPath, body, ts) ==
  reqPath \o buildParamsSignatureText(<<>>, <<>>, body) \o ts \o sb.secretKey

\* Mutant of ValidateResponseText: the request path is left out.
ValidateResponseText_nopath(sb, path, body, ts) ==
  buildParamsSignatureText(<<>>, <<>>, body) \o ts \o sb.secretKey

\* Lines 72-74 of ValidateResponse: the text a response is checked against.
ValidateResponseText(sb, path, body, ts) ==
  path \o buildParamsSignatureText(<<>>, <<>>, body) \o ts \o sb.secretKey

\* Line 88 of ValidateRequest: the expiry test, in wrapping int64 arithmetic.
Expired(sb, clock, timestamp) ==
  /\ sb.expiredIn > 0
  /\ Less64(ToInt64(sb.expiredIn), Sub64(ToInt64(clock), timestamp))

\* Mutant of SignRequest: the timestamp header is set to the current second
\* instead of the timestamp that was signed.
SignRequest_stampsClock(sb, req, order, clock) ==
  LET b == buildSignatureFromIncomeRequest(sb, req, order, clock)
  IN  IF b.err # ""
        THEN [err |-> b.err, rs |-> <<>>, req |-> [req EXCEPT !.body = b.stream]]
        ELSE [err |-> "", rs |-> b.rs,
              req |-> [req EXCEPT !.body = b.stream,
                                  !.hTs = FormatInt(ToInt64(clock)),
                                  !.hAk = sb.accessKey,
                                  !.hSign = b.rs[1].Sign]]

\* SignRequest: the error, the result (<<>> is nil) and the request after.
SignRequest(sb, req, order, clock) ==
  LET b == buildSignatureFromIncomeRequest(sb, req, order, clock)
  IN  IF b.err # ""
        THEN [err |-> b.err, rs |-> <<>>, req |-> [req EXCEPT !.body = b.stream]]
        ELSE [err |-> "", rs |-> b.rs,
              req |-> [req EXCEPT !.body = b.stream,
                                  !.hTs = b.rs[1].Timestamp,
                                  !.hAk = sb.accessKey,
                                  !.hSign = b.rs[1].Sign]]

\* ValidateRequest: the error ("" is nil) and the request after.
ValidateRequest(sb, req, order, clock) ==
  LET timestamp == ParseInt(req.hTs)
      b == buildSignatureFromIncomeRequest(sb, req, order, clock)
      read == [req EXCEPT !.body = b.stream]
  IN  IF timestamp.err # ""
        THEN [err |-> IF timestamp.err = "syntax"
                        THEN "strconv.ParseInt: invalid syntax"
                        ELSE "strconv.ParseInt: value out of range",
              req |-> req]
      ELSE IF Expired(sb, clock, timestamp.v)
        THEN [err |-> "timestamp expired", req |-> req]
      ELSE IF b.err # "" THEN [err |-> b.err, req |-> read]
      ELSE IF b.rs[1].Sign # req.hSign
        THEN [err |-> "signature validation failed", req |-> read]
      ELSE [err |-> "", req |-> read]

\* SignResponseBody: the result; no message is touched.
SignResponseBody(sb, reqPath, body, clock) ==
  LET ts == FormatInt(ToInt64(clock))
      finalText == SignResponseText(sb, reqPath, body, ts)
  IN  [Sign |-> hash(finalText), AccessKey |-> sb.accessKey,
       FinalText |-> finalText, Timestamp |-> ts]

\* ValidateResponse: the error ("" is nil) and the response after.  path is
\* res.Request.URL.Path.
ValidateResponse(sb, resp) ==
  LET rd == ReadAll(resp.body)
      read == [resp EXCEPT !.body = NopCloser(rd.data)]
      resSign == hash(ValidateResponseText(sb, resp.path, rd.data, resp.hTs))
  IN  IF rd.err
        THEN [err |-> "read response body", resp |-> [resp EXCEPT !.body = rd.rest]]
      ELSE IF resp.hTs = <<>>
        THEN [err |-> "timestamp missing in response header", resp |-> read]
      ELSE IF resp.hSign = <<>>
        THEN [err |-> "signature missing in response header", resp |-> read]
      ELSE IF resp.hAk # sb.accessKey
        THEN [err |-> "access key validation failed", resp |-> read]
      ELSE IF resp.hAk # sb.accessKey
        THEN [err |-> "access key validation failed", resp |-> read]
      ELSE IF resSign = resp.hSign THEN [err |-> "", resp |-> read]
      ELSE [err |-> "signature validation failed", resp |-> read]

-----------------------------------------------------------------------------
(* Inputs *)

\* Ticks of the clock between two calls.
MaxTicks == 2

\* Length of the bodies enumerated byte by byte.
MaxLen == 3

\* The Unix time at which a behaviour starts.
Now0 == 1700000000

\* The expiry window of the repository's tests.
Window == 3600

MaxInt64 == Sub64(MinInt64, One64)

ak == <<"a", "k">>
sk == <<"s", "k">>

\* A signature header that is no digest.
Bogus == <<"0">>

Alphabet == {"a", "b", "=", "&", ";", "+"}

\* All strings over Alphabet of at most n bytes.
Strings(n) == UNION {[1..k -> Alphabet] : k \in 0..n}

\* Query strings: none, one pair, two keys out of order with a repeated key.
Queries ==
  {<<>>, <<"a", "=", "a">>, <<"b", "=", "+", "&", "a", "=", "b", "&", "a", "=", "a">>}

\* Bodies: none, one pair, pairs out of order, a repeated key, and a
\* semicolon, which url.ParseQuery rejects.
Bodies ==
  {<<>>, <<"a", "=", "b">>, <<"b", "=", "a", "&", "a", "b", "=">>,
   <<"a", "=", "b", "&", "a", "=", "a">>, <<"a", ";", "b">>}

\* Timestamp headers a request may carry before any call: none, not a
\* number, the current second, the last second inside the window, the first
\* outside, a future second, the ends of int64, and one past its end.
TsHeaders ==
  {<<>>, <<"x">>, FormatInt(ToInt64(Now0)), FormatInt(ToInt64(Now0 - Window)),
   FormatInt(ToInt64(Now0 - Window - 1)), FormatInt(ToInt64(Now0 + 5)),
   FormatInt(MinInt64), FormatInt(MaxInt64), FormatUint(MinInt64)}

ExpiredIns == {0 - 1, 0, Window}

NoMessage ==
  [path |-> <<>>, query |-> <<>>, ctype |-> "", body |-> Stream(<<>>),
   hTs |-> <<>>, hSign |-> <<>>, hAk |-> <<>>]

NoCanon == [r1 |-> NoMessage, r2 |-> NoMessage, keys |-> <<>>,
            text1 |-> <<>>, text2 |-> <<>>, sign1 |-> <<>>, sign2 |-> <<>>]

NoCall == [op |-> "", err |-> "", rs |-> <<>>]

\* NewSignatureBuilder(ak, sk, expiredIn).
NewSignatureBuilder(accessKey, secretKey, expiredIn) ==
  [accessKey |-> accessKey, secretKey |-> secretKey, expiredIn |-> expiredIn]

-----------------------------------------------------------------------------
(* Requests: SignRequest, then the clock, then ValidateRequest *)

Init ==
  /\ s \in {NewSignatureBuilder(ak, sk, e) : e \in ExpiredIns}
  /\ now = Now0
  /\ ticks = 0
  /\ pc = "new"
  /\ r \in {[path |-> <<"/", "a">>, query |-> q, ctype |-> ct,
             body |-> [buf |-> b, err |-> e], hTs |-> ts, hSign |-> sg,
             hAk |-> <<>>] :
              q \in Queries, ct \in ContentTypes, b \in Bodies,
              e \in BOOLEAN, ts \in TsHeaders, sg \in {<<>>, Bogus}}
  /\ res = NoMessage
  /\ pre = NoMessage
  /\ sgn = <<>>
  /\ out = NoCall
  /\ tampered = ""
  /\ canon = NoCanon

\* A caller signs the request.  sgn keeps the call: its outcome, the clock
\* and the request as it was before.
CallSignRequest ==
  /\ r # NoMessage
  /\ pc = "new"
  /\ \E order \in RangeOrders(queryParams(r)) :
       LET c == SignRequest(s, r, order, now)
       IN  /\ r' = c.req
           /\ out' = [op |-> "SignRequest", err |-> c.err, rs |-> c.rs]
           /\ sgn' = <<[err |-> c.err, rs |-> c.rs, at |-> now, before |-> r]>>
  /\ pre' = r
  /\ pc' = "signed"
  /\ UNCHANGED <<s, now, ticks, res, tampered, canon>>

\* A second passes between two calls.
Tick ==
  /\ pc \in {"signed", "attached"}
  /\ ticks < MaxTicks
  /\ now' = now + 1
  /\ ticks' = ticks + 1
  /\ UNCHANGED <<s, pc, r, res, pre, sgn, out, tampered, canon>>

\* A receiver validates the request, signed or not.
CallValidateRequest ==
  /\ r # NoMessage
  /\ pc \in {"new", "signed", "tampered"}
  /\ \E order \in RangeOrders(queryParams(r)) :
       LET c == ValidateRequest(s, r, order, now)
       IN  /\ r' = c.req
           /\ out' = [op |-> "ValidateRequest", err |-> c.err, rs |-> <<>>]
  /\ pre' = r
  /\ pc' = "done"
  /\ UNCHANGED <<s, now, ticks, res, sgn, tampered, canon>>

Next == CallSignRequest \/ Tick \/ CallValidateRequest

Spec == Init /\ [][Next]_vars

-----------------------------------------------------------------------------
(* Responses: SignResponseBody, the three headers attached, the clock, *)
(* ValidateResponse                                                     *)

InitResp ==
  /\ s \in {NewSignatureBuilder(a, sk, Window) : a \in {ak, <<>>}}
  /\ now = Now0
  /\ ticks = 0
  /\ pc = "new"
  /\ r = NoMessage
  /\ res \in {[path |-> p, query |-> <<>>, ctype |-> "",
               body |-> [buf |-> b, err |-> e], hTs |-> ts, hSign |-> sg,
               hAk |-> a] :
                p \in {<<"/">>, <<"/", "a">>}, b \in Bodies, e \in BOOLEAN,
                ts \in {<<>>, <<"5">>}, sg \in {<<>>, Bogus},
                a \in {<<>>, ak, <<"x">>}}
  /\ pre = NoMessage
  /\ sgn = <<>>
  /\ out = NoCall
  /\ tampered = ""
  /\ canon = NoCanon

\* The server signs the body it is about to send (test, line 37).
CallSignResponseBody ==
  /\ res # NoMessage
  /\ pc = "new"
  /\ LET rs == SignResponseBody(s, res.path, res.body.buf, now)
     IN  /\ out' = [op |-> "SignResponseBody", err |-> "", rs |-> <<rs>>]
         /\ sgn' = <<[err |-> "", rs |-> <<rs>>, at |-> now, before |-> res]>>
  /\ pre' = res
  /\ pc' = "signed"
  /\ UNCHANGED <<s, now, ticks, r, res, tampered, canon>>

\* The caller sets the three headers from the result (test, lines 43-45).
Attach ==
  /\ pc = "signed"
  /\ out.op = "SignResponseBody"
  /\ res' = [res EXCEPT !.hSign = out.rs[1].Sign,
                        !.hTs = out.rs[1].Timestamp,
                        !.hAk = out.rs[1].AccessKey]
  /\ pc' = "attached"
  /\ UNCHANGED <<s, now, ticks, r, pre, sgn, out, tampered, canon>>

\* The client validates the response, signed or not.
CallValidateResponse ==
  /\ res # NoMessage
  /\ pc \in {"new", "attached"}
  /\ LET c == ValidateResponse(s, res)
     IN  /\ res' = c.resp
         /\ out' = [op |-> "ValidateResponse", err |-> c.err, rs |-> <<>>]
  /\ pre' = res
  /\ pc' = "done"
  /\ UNCHANGED <<s, now, ticks, r, sgn, tampered, canon>>

NextResp == CallSignResponseBody \/ Attach \/ Tick \/ CallValidateResponse

SpecResp == InitResp /\ [][NextResp]_vars

\* Requests and responses together: a behaviour holds a request or a
\* response (the other is NoMessage), and the calls act on the one it holds.
SpecAll == (Init \/ InitResp) /\ [][Next \/ NextResp]_vars

-----------------------------------------------------------------------------
(* Tampering: one byte of a signed request changes before it is validated *)

InitTamper ==
  /\ s = NewSignatureBuilder(ak, sk, Window)
  /\ now = Now0
  /\ ticks = 0
  /\ pc = "new"
  /\ r \in {[path |-> <<"/", "a">>, query |-> q, ctype |-> ct,
             body |-> Stream(b), hTs |-> <<>>, hSign |-> <<>>, hAk |-> <<>>] :
              q \in Queries, b \in Strings(MaxLen),
              ct \in {"application/x-www-form-urlencoded",
                      "Application/JSON; charset=utf-8"}}
  /\ res = NoMessage
  /\ pre = NoMessage
  /\ sgn = <<>>
  /\ out = NoCall
  /\ tampered = ""
  /\ canon = NoCanon

\* The bytes a tamperer writes.
TamperBytes == {"a", "b", "=", "&"}

\* Byte i of a raw query lies in a parameter value: a letter after the "="
\* of its segment.
IsValueByte(query, i) ==
  /\ query[i] \in {"a", "b"}
  /\ \E j \in 1..(i - 1) :
       query[j] = "=" /\ \A k \in j..i : query[k] # "&"

\* One byte of the path, of a query parameter value or of the body of a
\* signed request is replaced by another.
Tamper ==
  /\ pc = "signed"
  /\ out.err = ""
  /\ \E c \in TamperBytes :
       \/ \E i \in 2..Len(r.path) :
            /\ c \in {"a", "b"} /\ c # r.path[i]
            /\ r' = [r EXCEPT !.path[i] = c]
            /\ tampered' = "path"
       \/ \E i \in 1..Len(r.query) :
            /\ IsValueByte(r.query, i) /\ c \in {"a", "b"} /\ c # r.query[i]
            /\ r' = [r EXCEPT !.query[i] = c]
            /\ tampered' = "query"
       \/ \E i \in 1..Len(r.body.buf) :
            /\ c # r.body.buf[i]
            /\ r' = [r EXCEPT !.body.buf[i] = c]
            /\ tampered' = "body"
  /\ pc' = "tampered"
  /\ UNCHANGED <<s, now, ticks, res, pre, sgn, out, canon>>

NextTamper == CallSignRequest \/ Tamper \/ CallValidateRequest

SpecTamper == InitTamper /\ [][NextTamper]_vars

-----------------------------------------------------------------------------
(* Canonical text of two requests that carry the same parameters in        *)
(* different orders                                                        *)

ParamKeys == {<<"a">>, <<"b">>, <<"a", "b">>}
ParamVals == {<<"a">>, <<"b">>}

\* Parameter sets: maps from some of the keys to values.
ParamSets == UNION {[K -> ParamVals] : K \in SUBSET ParamKeys}

\* The pairs of params as key=value joined by "&", in the given order.
RECURSIVE Encode(_, _)
Encode(params, order) ==
  IF order = <<>> THEN <<>>
  ELSE Head(order) \o <<"=">> \o params[Head(order)]
         \o (IF Len(order) > 1 THEN <<"&">> ELSE <<>>)
         \o Encode(params, Tail(order))

\* A request that carries raw as its query string or as its form body.
Carrying(where, raw) ==
  [path |-> <<"/", "a">>, query |-> IF where = "query" THEN raw ELSE <<>>,
   ctype |-> "application/x-www-form-urlencoded",
   body |-> Stream(IF where = "form" THEN raw ELSE <<>>),
   hTs |-> FormatInt(ToInt64(Now0)), hSign |-> <<>>, hAk |-> <<>>]

InitCanon ==
  /\ s = NewSignatureBuilder(ak, sk, Window)
  /\ now = Now0
  /\ ticks = 0
  /\ pc = "new"
  /\ r = NoMessage
  /\ res = NoMessage
  /\ pre = NoMessage
  /\ sgn = <<>>
  /\ out = NoCall
  /\ tampered = ""
  /\ \E params \in ParamSets, where \in {"query", "form"} :
       \E o1 \in RangeOrders(params), o2 \in RangeOrders(params) :
         canon = [NoCanon EXCEPT !.r1 = Carrying(where, Encode(params, o1)),
                                 !.r2 = Carrying(where, Encode(params, o2))]

\* Both requests are signed; range visits each parameter map in some order.
SignBoth ==
  /\ pc = "new"
  /\ \E order1 \in RangeOrders(queryParams(canon.r1)),
        order2 \in RangeOrders(queryParams(canon.r2)) :
       canon' =
         [canon EXCEPT
            !.keys = SortStrings(order1),
            !.text1 = buildParamsSignatureText(queryParams(canon.r1), order1,
                                               getPOSTParams(canon.r1).body),
            !.text2 = buildParamsSignatureText(queryParams(canon.r2), order2,
                                               getPOSTParams(canon.r2).body),
            !.sign1 = SignRequest(s, canon.r1, order1, now).rs[1].Sign,
            !.sign2 = SignRequest(s, canon.r2, order2, now).rs[1].Sign]
  /\ pc' = "done"
  /\ UNCHANGED <<s, now, ticks, r, res, pre, sgn, out, tampered>>

NextCanon == SignBoth

SpecCanon == InitCanon /\ [][NextCanon]_vars

-----------------------------------------------------------------------------
(* Properties *)

ParseErrors ==
  {"strconv.ParseInt: invalid syntax", "strconv.ParseInt: value out of range"}

\* now - timestamp > expiredIn over the integers, with no wrap-around:
\* timestamp < now - expiredIn, and now - expiredIn is a small number.
TrulyExpired(sb, clock, timestamp) ==
  /\ sb.expiredIn > 0
  /\ Less64(timestamp, ToInt64(clock - sb.expiredIn))

Ascending(keys) ==
  \A i \in 1..(Len(keys) - 1) : Less(keys[i], keys[i + 1])

\* The canonical text of a parameter map, stated without the sort: the
\* pairs in the one ascending order of the keys.
Canonical(params) ==
  ParamStr(CHOOSE o \in RangeOrders(params) : Ascending(o), params)

\* The first value of every key of a raw query string or form body.
FirstValues(raw) ==
  LET values == ParseQuery(raw).m
  IN  [k \in DOMAIN values |-> values[k][1]]

IsJSON(ct) == ct = "Application/JSON; charset=utf-8"
IsForm(ct) == ct \in {"", "application/x-www-form-urlencoded"}
IsOther(ct) == ct = "text/plain"

\* SignRequest has returned a result in this behaviour.
SignedOk == sgn # <<>> /\ sgn[1].err = ""

\* ValidateRequest has just returned.
Validated == pc = "done" /\ out.op = "ValidateRequest"

\* ValidateRequest has returned, called right after a successful SignRequest.
ValidatedAtOnce == Validated /\ SignedOk /\ sgn[1].at = now /\ tampered = ""

\* A timestamp header ValidateRequest accepts at the current second: none
\* (SignRequest then stamps the current second), or a number that is not
\* older than the window.
UsableTimestamp(hdr) ==
  \/ hdr = <<>>
  \/ /\ ParseInt(hdr).err = ""
     /\ ~TrulyExpired(s, now, ParseInt(hdr).v)

\* C1 as stated: SignRequest with a result, then at once ValidateRequest
\* with the same credential, succeeds whatever headers the request carried
\* before signing.
C1_SignThenValidate == ValidatedAtOnce => out.err = ""

\* C1 amended: the same, for a request that before signing carried no
\* timestamp header, or a numeric one no older than the expiry window.
C1_SignThenValidateUsable ==
  (ValidatedAtOnce /\ UsableTimestamp(sgn[1].before.hTs)) => out.err = ""

C1_Witness ==
  /\ ValidatedAtOnce
  /\ sgn[1].before.hTs # <<>>
  /\ UsableTimestamp(sgn[1].before.hTs)
  /\ pre.query # <<>>
  /\ pre.body.buf # <<>>
  /\ out.err = ""

\* C4: on a request signed by SignRequest whose timestamp header is a
\* 64-bit number, ValidateRequest fails with the expired error exactly when
\* expiredIn > 0 and now - timestamp > expiredIn, and succeeds otherwise.
C4_ExpiryBoundary ==
  (Validated /\ SignedOk /\ ParseInt(pre.hTs).err = "") =>
    IF TrulyExpired(s, now, ParseInt(pre.hTs).v)
      THEN out.err = "timestamp expired"
      ELSE out.err = ""

\* C5: ValidateRequest returns the error of the first failed check in the
\* order timestamp form, timestamp freshness, signature: a missing or
\* non-numeric timestamp gives the parse error, an expired one the expired
\* error, and only a fresh numeric one any later error or success.
C5_ValidationOrder ==
  Validated =>
    LET timestamp == ParseInt(pre.hTs)
    IN  IF timestamp.err # "" THEN out.err \in ParseErrors
        ELSE IF TrulyExpired(s, now, timestamp.v)
          THEN out.err = "timestamp expired"
          ELSE out.err \notin ParseErrors \cup {"timestamp expired"}

\* C7: a successful SignRequest returns signature, timestamp, final text
\* and the credential's access key, the first three and the access key equal
\* to the three headers it set; a failed one returns nil and leaves the
\* headers alone.
C7_SignRequestResult ==
  (pc = "signed" /\ out.op = "SignRequest") =>
    IF out.err = ""
      THEN /\ out.rs # <<>>
           /\ out.rs[1].FinalText # <<>>
           /\ out.rs[1].Sign = r.hSign
           /\ out.rs[1].Timestamp = r.hTs
           /\ out.rs[1].AccessKey = r.hAk
           /\ out.rs[1].AccessKey = s.accessKey
      ELSE /\ out.rs = <<>>
           /\ r.hSign = pre.hSign /\ r.hTs = pre.hTs /\ r.hAk = pre.hAk

\* The signing text of a successful SignRequest is path + sorted query
\* parameters + raw body for JSON, and path + sorted merge of query and form
\* parameters (the form value winning) for a form or absent content type;
\* SignRequest succeeds for no other content type.
SigningTextByContentType ==
  (pc = "signed" /\ out.op = "SignRequest" /\ out.err = "") =>
    /\ IsJSON(pre.ctype) \/ IsForm(pre.ctype)
    /\ IsJSON(pre.ctype) =>
         out.rs[1].FinalText =
           pre.path \o Canonical(FirstValues(pre.query)) \o pre.body.buf
             \o r.hTs \o s.secretKey
    /\ IsForm(pre.ctype) =>
         out.rs[1].FinalText =
           pre.path
             \o Canonical(FirstValues(pre.body.buf) @@ FirstValues(pre.query))
             \o r.hTs \o s.secretKey

ValidatedResponse ==
  pc = "done" /\ out.op = "ValidateResponse" /\ ~pre.body.err

\* C2: when the signature, timestamp and access key SignResponseBody returned
\* for a path and body are the three headers of a response with that body
\* and path, ValidateResponse succeeds, however many seconds have passed.
C2_ResponseRoundTrip == (ValidatedResponse /\ sgn # <<>>) => out.err = ""

C2_Witness ==
  /\ ValidatedResponse
  /\ sgn # <<>>
  /\ now > sgn[1].at
  /\ pre.body.buf # <<>>
  /\ out.err = ""

\* C6: ValidateResponse fails with an error of its own for each of the three
\* headers that is absent, and only with all three present compares the
\* access key (access-key mismatch error) and then the signature
\* (signature-mismatch error).
C6_ResponseHeaderChecks ==
  ValidatedResponse =>
    IF pre.hTs = <<>> THEN out.err = "timestamp missing in response header"
    ELSE IF pre.hSign = <<>> THEN out.err = "signature missing in response header"
    ELSE IF pre.hAk = <<>>
      THEN out.err \notin {"", "timestamp missing in response header",
                           "signature missing in response header",
                           "access key validation failed",
                           "signature validation failed"}
    ELSE IF pre.hAk # s.accessKey THEN out.err = "access key validation failed"
    ELSE out.err \in {"", "signature validation failed"}

\* C3: with the digest injective, after one byte of the body, of the path or
\* of a query or form parameter value of a signed request has changed,
\* ValidateRequest fails with the signature-mismatch error.
C3_TamperDetected ==
  (Validated /\ tampered # "") => out.err = "signature validation failed"

\* C10: the canonical text lists the keys in strictly ascending order, and
\* two requests with the same path, body, timestamp and secret that carry
\* the same parameters in different orders, or the same request signed
\* again, get the same canonical text and the same signature.
C10_OrderInvariant ==
  (pc = "done" /\ canon # NoCanon) =>
    /\ Ascending(canon.keys)
    /\ canon.text1 = canon.text2
    /\ canon.sign1 = canon.sign2

C10_Witness ==
  /\ pc = "done"
  /\ canon.r1 # canon.r2
  /\ Len(canon.keys) = 3
  /\ canon.text1 = canon.text2
  /\ canon.sign1 = canon.sign2

====
